---------------------------- MODULE Spec2Model ----------------------------
(***************************************************************************)
(* A model of the stun-zc STUN codec: the class/method packing of          *)
(* StunTyp, the attribute value codecs and registry of attr.rs, the        *)
(* attribute sequence of attrs.rs and the message envelope of lib.rs.      *)
(* Byte buffers are sequences of integers 0..255; a Rust panic (slice out  *)
(* of range, copy_from_slice length mismatch, arithmetic overflow in a     *)
(* checked build) is the outcome "Panic".  Integer overflow depends on the  *)
(* build profile: build = "checked" panics on overflow (overflow-checks    *)
(* on, the dev profile), build = "wrapping" wraps (the release profile).   *)
(***************************************************************************)
EXTENDS Integers, Sequences, FiniteSets, TLC

VARIABLES build, pc, msg, out, wire, res, it, yielded, tfield, tback,
          aiter, rets, aval, actx, aenc, adec

vars == <<build, pc, msg, out, wire, res, it, yielded, tfield, tback,
          aiter, rets, aval, actx, aenc, adec>>

(***************************************************************************)
(* Bounds of the model.                                                    *)
(***************************************************************************)
MaxAttrs == 3
MaxExtra == 1
MaxNext == 4
MaxTlvs == 2
MaxWalk == 4

(***************************************************************************)
(* Fixed-width integer helpers (u8, u16, u32 and their big-endian bytes).  *)
(***************************************************************************)
RECURSIVE BitAnd(_, _)
BitAnd(a, b) ==
    IF a = 0 \/ b = 0 THEN 0
    ELSE (IF a % 2 = 1 /\ b % 2 = 1 THEN 1 ELSE 0) + 2 * BitAnd(a \div 2, b \div 2)

RECURSIVE BitOr(_, _)
BitOr(a, b) ==
    IF a = 0 THEN b
    ELSE IF b = 0 THEN a
    ELSE (IF a % 2 = 1 \/ b % 2 = 1 THEN 1 ELSE 0) + 2 * BitOr(a \div 2, b \div 2)

RECURSIVE BitXor(_, _)
BitXor(a, b) ==
    IF a = 0 THEN b
    ELSE IF b = 0 THEN a
    ELSE (IF a % 2 = b % 2 THEN 0 ELSE 1) + 2 * BitXor(a \div 2, b \div 2)

Shl16(a, n) == (a * (2 ^ n)) % 65536
Shr(a, n) == a \div (2 ^ n)

U16BE(n) == <<n \div 256, n % 256>>
FromBE16(b) == b[1] * 256 + b[2]
\* a u32 is the pair <<high 16 bits, low 16 bits>>; a u64 is four such halves
U32(hi, lo) == <<hi, lo>>
U32BE(w) == U16BE(w[1]) \o U16BE(w[2])
FromBE32(b) == <<b[1] * 256 + b[2], b[3] * 256 + b[4]>>
Xor32(v, w) == <<BitXor(v[1], w[1]), BitXor(v[2], w[2])>>
Shr32(w, n) == <<w[1] \div (2 ^ n), (w[2] \div (2 ^ n)) + (w[1] % (2 ^ n)) * (2 ^ (16 - n))>>
U64BE(w) == U16BE(w[1]) \o U16BE(w[2]) \o U16BE(w[3]) \o U16BE(w[4])
FromBE64(b) == <<b[1] * 256 + b[2], b[3] * 256 + b[4], b[5] * 256 + b[6], b[7] * 256 + b[8]>>

\* &s[from..][..n] with 0-based from: the n bytes starting at offset from
Slice(s, from, n) == SubSeq(s, from + 1, from + n)
\* &s[from..]
Tail0(s, from) == SubSeq(s, from + 1, Len(s))
\* s with the bytes at offset from.. overwritten by w (copy_from_slice)
Overwrite(s, from, w) ==
    SubSeq(s, 1, from) \o w \o SubSeq(s, from + Len(w) + 1, Len(s))

(***************************************************************************)
(* StunTyp: class and 12-bit method packed into the 14-bit type field.     *)
(***************************************************************************)
Classes == {"Req", "Ind", "Res", "Err"}

StunTyp(c, m) == [class |-> c, method |-> m]

TypeOutOfRange == [class |-> "TypeOutOfRange", method |-> 0]

\* impl TryFrom<[u8; 2]> for StunTyp
TypTryFrom(bytes) ==
    LET value == FromBE16(bytes)
        method == BitOr(BitOr(Shr(BitAnd(value, 15), 0),
                              Shr(BitAnd(value, 224), 1)),
                        Shr(BitAnd(value, 15872), 2))
        cls == BitAnd(value, 272)
    IN IF value >= 16384 THEN TypeOutOfRange
       ELSE IF cls = 0 THEN StunTyp("Req", method)
       ELSE IF cls = 16 THEN StunTyp("Ind", method)
       ELSE IF cls = 256 THEN StunTyp("Res", method)
       ELSE StunTyp("Err", method)

ClassBits(c) ==
    CASE c = "Req" -> 0
      [] c = "Ind" -> 16
      [] c = "Res" -> 256
      [] c = "Err" -> 272

\* impl From<&StunTyp> for [u8; 2]
TypToBytes(t) ==
    LET class == ClassBits(t.class)
        method == t.method
        ret == BitOr(BitOr(BitOr(Shl16(BitAnd(method, 15), 0),
                                 Shl16(BitAnd(method, 224), 1)),
                           Shl16(BitAnd(method, 15872), 2)),
                     class)
    IN U16BE(ret)


(***************************************************************************)
(* Checksums.  crc32fast::Hasher is the IEEE CRC-32 (reflected polynomial  *)
(* 0xEDB88320, initial value and final xor 0xFFFFFFFF); feeding it several *)
(* chunks is the CRC of their concatenation.  HMAC-SHA1 is abstracted to a *)
(* keyed 20-byte digest of the key and the signed bytes.                   *)
(***************************************************************************)
CrcPoly == U32(60856, 33568)

CrcStep(c) == IF c[2] % 2 = 1 THEN Xor32(CrcPoly, Shr32(c, 1)) ELSE Shr32(c, 1)

CrcTable ==
    [i \in 0..255 |->
        CrcStep(CrcStep(CrcStep(CrcStep(CrcStep(CrcStep(CrcStep(CrcStep(U32(0, i)))))))))]

RECURSIVE CrcUpdate(_, _, _)
CrcUpdate(crc, bytes, i) ==
    IF i > Len(bytes) \/ crc[1] < 0 THEN crc
    ELSE CrcUpdate(Xor32(CrcTable[BitXor(crc[2] % 256, bytes[i])], Shr32(crc, 8)),
                   bytes, i + 1)

\* Hasher::new, update over the whole input, finalize
Crc32(bytes) == Xor32(CrcUpdate(U32(65535, 65535), bytes, 1), U32(65535, 65535))

HmacSha1(key, data) ==
    LET c == Crc32(<<Len(key)>> \o key \o data)
        d == Crc32(data \o key)
    IN U32BE(c) \o U32BE(d) \o U32BE(Xor32(c, U32(23130, 42405)))
       \o U32BE(Xor32(d, U32(50115, 15420))) \o U32BE(Xor32(Xor32(c, d), U32(4660, 22136)))

(***************************************************************************)
(* std::str::from_utf8: TRUE iff the bytes are well-formed UTF-8.          *)
(***************************************************************************)
IsCont(b) == b >= 128 /\ b <= 191

RECURSIVE ValidUtf8(_, _)
ValidUtf8(b, i) ==
    IF i > Len(b) THEN TRUE
    ELSE LET c == b[i]
             n == Len(b) - i
         IN IF c < 128 THEN ValidUtf8(b, i + 1)
            ELSE IF c >= 194 /\ c <= 223
                 THEN n >= 1 /\ IsCont(b[i + 1]) /\ ValidUtf8(b, i + 2)
            ELSE IF c >= 224 /\ c <= 239
                 THEN /\ n >= 2
                      /\ IsCont(b[i + 1]) /\ IsCont(b[i + 2])
                      /\ (c = 224 => b[i + 1] >= 160)
                      /\ (c = 237 => b[i + 1] <= 159)
                      /\ ValidUtf8(b, i + 3)
            ELSE IF c >= 240 /\ c <= 244
                 THEN /\ n >= 3
                      /\ IsCont(b[i + 1]) /\ IsCont(b[i + 2]) /\ IsCont(b[i + 3])
                      /\ (c = 240 => b[i + 1] >= 144)
                      /\ (c = 244 => b[i + 1] <= 143)
                      /\ ValidUtf8(b, i + 4)
            ELSE FALSE

FromUtf8Ok(b) == ValidUtf8(b, 1)

(***************************************************************************)
(* AttrContext.                                                            *)
(***************************************************************************)
AttrContext(header, attrs_prefix, attr_len, zero_xor_bytes) ==
    [header |-> header, attrs_prefix |-> attrs_prefix, attr_len |-> attr_len,
     zero_xor_bytes |-> zero_xor_bytes]

NoCtx == AttrContext(<<>>, <<>>, 0, FALSE)

\* AttrContext::xor_bytes
xor_bytes(ctx) ==
    IF ctx.zero_xor_bytes THEN [i \in 1..16 |-> 0] ELSE Slice(ctx.header, 4, 16)

\* AttrContext::reduce_over_prefix: the bytes handed to func, in order
reduce_over_prefix(ctx) ==
    Slice(ctx.header, 0, 2)
    \o U16BE(((Len(ctx.attrs_prefix) % 65536) + ctx.attr_len) % 65536)
    \o Tail0(ctx.header, 4)
    \o ctx.attrs_prefix

XorWith(bytes, key) == [i \in 1..Len(bytes) |-> BitXor(bytes[i], key[i])]


(***************************************************************************)
(* StunAttr: the attribute registry.  An attribute is a record             *)
(*   kind  the variant (Integrity::Set / Check and UnknownAttributes::     *)
(*         Parse / List are told apart by the kind),                       *)
(*   typ   the 16-bit type of Other, 0 otherwise,                          *)
(*   s     the byte payload: text as its UTF-8 bytes, raw bytes, the IP    *)
(*         octets of an address, the halves of a u32 / u64, the key of     *)
(*         Integrity::Set, the 20 bytes of Integrity::Check,               *)
(*   n     the numeric payload: the port of an address, the code of an     *)
(*         Error, the flag of EvenPort, the byte of RequestedTransport,    *)
(*   ctx   the AttrContext kept by Integrity::Check, NoCtx otherwise.      *)
(***************************************************************************)
Attr(kind, typ, s, n, ctx) == [kind |-> kind, typ |-> typ, s |-> s, n |-> n, ctx |-> ctx]

NullAttr == Attr("None", 0, <<>>, 0, NoCtx)

Software(s) == Attr("Software", 0, s, 0, NoCtx)
Username(s) == Attr("Username", 0, s, 0, NoCtx)
FingerprintAttr == Attr("Fingerprint", 0, <<>>, 0, NoCtx)
IntegritySet(key_data) == Attr("IntegritySet", 0, key_data, 0, NoCtx)
IntegrityCheck(val, ctx) == Attr("IntegrityCheck", 0, val, 0, ctx)
Priority(w) == Attr("Priority", 0, w, 0, NoCtx)
UseCandidate == Attr("UseCandidate", 0, <<>>, 0, NoCtx)
XMapped(ip, port) == Attr("XMapped", 0, ip, port, NoCtx)
Mapped(ip, port) == Attr("Mapped", 0, ip, port, NoCtx)
ErrorAttr(code, message) == Attr("Error", 0, message, code, NoCtx)
Other(typ, s) == Attr("Other", typ, s, 0, NoCtx)

IsIntegrity(a) == a.kind \in {"IntegritySet", "IntegrityCheck"}

\* the type table of StunAttr::typ and StunAttr::decode
TypTable ==
    [Mapped |-> 1, Username |-> 6, IntegritySet |-> 8, IntegrityCheck |-> 8, Error |-> 9,
     UnknownAttributesParse |-> 10, UnknownAttributesList |-> 10, Realm |-> 20,
     Nonce |-> 21, XMapped |-> 32, Software |-> 32802, AlternateServer |-> 32803,
     Fingerprint |-> 32808, Channel |-> 12, Lifetime |-> 13, XPeer |-> 18, Data |-> 19,
     XRelayed |-> 22, EvenPort |-> 24, RequestedTransport |-> 25, DontFragment |-> 26,
     ReservationToken |-> 34, Priority |-> 36, UseCandidate |-> 37,
     IceControlled |-> 32809, IceControlling |-> 32810]

\* StunAttr::typ
AttrTyp(a) == IF a.kind = "Other" THEN a.typ ELSE TypTable[a.kind]

\* StunAttr::value: which StunAttrValue implementation carries the variant
Codec(kind) ==
    CASE kind = "Mapped" -> "zeroxor_addr"
      [] kind \in {"XMapped", "AlternateServer", "XPeer", "XRelayed"} -> "addr"
      [] kind \in {"Username", "Realm", "Nonce", "Software"} -> "str"
      [] kind \in {"IntegritySet", "IntegrityCheck"} -> "integrity"
      [] kind = "Error" -> "error"
      [] kind \in {"UnknownAttributesParse", "UnknownAttributesList"} -> "unknown"
      [] kind \in {"Channel", "Lifetime", "ReservationToken", "Priority"} -> "u32"
      [] kind \in {"IceControlled", "IceControlling"} -> "u64"
      [] kind \in {"Data", "Other"} -> "bytes"
      [] kind = "EvenPort" -> "evenport"
      [] kind = "RequestedTransport" -> "reqtransport"
      [] kind \in {"DontFragment", "UseCandidate"} -> "unit"
      [] kind = "Fingerprint" -> "fingerprint"

\* to_canonical: an IPv4-mapped IPv6 address (::ffff:a.b.c.d) becomes IPv4
to_canonical(ip) ==
    IF Len(ip) = 16 /\ (\A i \in 1..10 : ip[i] = 0) /\ ip[11] = 255 /\ ip[12] = 255
    THEN SubSeq(ip, 13, 16)
    ELSE ip

\* StunAttrValue::length of the variant's value
ValLength(a) ==
    LET c == Codec(a.kind)
    IN CASE c \in {"addr", "zeroxor_addr"} -> IF Len(to_canonical(a.s)) = 4 THEN 8 ELSE 20
         [] c \in {"str", "bytes"} -> Len(a.s) % 65536
         [] c = "integrity" -> 20
         [] c = "error" -> (4 + (Len(a.s) % 65536)) % 65536
         [] c = "unknown" -> IF a.kind = "UnknownAttributesParse" THEN Len(a.s) % 65536
                             ELSE (Len(a.s) * 2) % 65536
         [] c = "u32" -> 4
         [] c = "u64" -> 8
         [] c = "evenport" -> 1
         [] c = "reqtransport" -> 4
         [] c = "unit" -> 0
         [] c = "fingerprint" -> 4

\* StunAttr::length and StunAttr::len
AttrLength(a) == ValLength(a)
AttrLen(a) == (4 + AttrLength(a)) % 65536


(***************************************************************************)
(* Value codecs: encode.  Every codec fills the whole window it is given   *)
(* (exactly ValLength bytes), so the encoding is the bytes written.        *)
(***************************************************************************)
FingerprintXor == U32(21332, 21838)

\* impl StunAttrValue for SocketAddr: encode
AddrEncode(a, ctx) ==
    LET xb == xor_bytes(ctx)
        ip == to_canonical(a.s)
        family == IF Len(ip) = 4 THEN 1 ELSE 2
    IN <<0, family>> \o XorWith(U16BE(a.n), xb) \o XorWith(ip, xb)

\* impl StunAttrValue for Error: encode
ErrorEncode(a) == <<0, 0, (a.n \div 100) % 256, (a.n % 100) % 256>> \o a.s

RECURSIVE UnknownListBytes(_)
UnknownListBytes(l) ==
    IF l = <<>> THEN <<>> ELSE U16BE(l[1]) \o UnknownListBytes(Tail(l))

\* impl StunAttrValue for Fingerprint: encode
FingerprintEncode(ctx) == U32BE(Xor32(Crc32(reduce_over_prefix(ctx)), FingerprintXor))

\* impl StunAttrValue for Integrity: encode
IntegrityEncode(a, ctx) ==
    IF a.kind = "IntegrityCheck" THEN a.s ELSE HmacSha1(a.s, reduce_over_prefix(ctx))

ZeroXor(ctx) == [ctx EXCEPT !.zero_xor_bytes = TRUE]

\* self.value().encode(buff, ctx)
ValEncode(a, ctx) ==
    LET c == Codec(a.kind)
    IN CASE c = "addr" -> AddrEncode(a, ctx)
         [] c = "zeroxor_addr" -> AddrEncode(a, ZeroXor(ctx))
         [] c \in {"str", "bytes"} -> a.s
         [] c = "integrity" -> IntegrityEncode(a, ctx)
         [] c = "error" -> ErrorEncode(a)
         [] c = "unknown" -> IF a.kind = "UnknownAttributesParse" THEN a.s
                             ELSE UnknownListBytes(a.s)
         [] c = "u32" -> U32BE(a.s)
         [] c = "u64" -> U64BE(a.s)
         [] c = "evenport" -> <<IF a.n = 1 THEN 128 ELSE 0>>
         [] c = "reqtransport" -> <<a.n, 0, 0, 0>>
         [] c = "unit" -> <<>>
         [] c = "fingerprint" -> FingerprintEncode(ctx)

\* StunAttr::encode: the attr.len() bytes of the TLV (no padding)
AttrEncode(a, ctx) == U16BE(AttrTyp(a)) \o U16BE(AttrLength(a)) \o ValEncode(a, ctx)

(***************************************************************************)
(* Value codecs: decode.  A result is [tag, attr, err] with tag "Ok",      *)
(* "Err" (err names the StunAttrDecodeErr) or "Panic".                     *)
(***************************************************************************)
Ok(a) == [tag |-> "Ok", attr |-> a, err |-> ""]
Err(e) == [tag |-> "Err", attr |-> NullAttr, err |-> e]
Panic == [tag |-> "Panic", attr |-> NullAttr, err |-> ""]

\* a SocketAddr decode that takes the port bytes as they are on the wire
AddrDecodeNoPortXor(kind, buff, ctx) ==
    LET xb == xor_bytes(ctx)
        family == buff[2]
        port == FromBE16(Slice(buff, 2, 2))
        xip == Tail0(buff, 4)
    IN IF Len(buff) < 8 THEN Err("ValueUnexpectedLength")
       ELSE IF (family = 1 /\ Len(xip) = 4) \/ (family = 2 /\ Len(xip) = 16)
            THEN Ok(Attr(kind, 0, XorWith(xip, xb), port, NoCtx))
       ELSE Err("ValueUnexpectedLength")

\* impl StunAttrValue for SocketAddr: decode
AddrDecode(kind, buff, ctx) ==
    LET xb == xor_bytes(ctx)
        family == buff[2]
        port == FromBE16(XorWith(Slice(buff, 2, 2), xb))
        xip == Tail0(buff, 4)
    IN IF Len(buff) < 8 THEN Err("ValueUnexpectedLength")
       ELSE IF (family = 1 /\ Len(xip) = 4) \/ (family = 2 /\ Len(xip) = 16)
            THEN Ok(Attr(kind, 0, XorWith(xip, xb), port, NoCtx))
       ELSE Err("ValueUnexpectedLength")

\* impl StunAttrValue for Error: decode; buff[2] * 100 is a u8 product
ErrorDecode(buff) ==
    LET prod == buff[3] * 100
        code == (prod % 256) + buff[4]
    IN IF Len(buff) < 4 THEN Err("ValueUnexpectedLength")
       ELSE IF prod > 255 /\ build = "checked" THEN Panic
       ELSE IF ~FromUtf8Ok(Tail0(buff, 4)) THEN Err("BadUtf8")
       ELSE Ok(ErrorAttr(code, Tail0(buff, 4)))

\* impl StunAttrValue for Fingerprint: decode
FingerprintDecode(buff, ctx) ==
    IF Len(buff) # 4 THEN Err("UnexpectedLength")
    ELSE LET actual == FromBE32(buff)
             expected == Xor32(Crc32(reduce_over_prefix(ctx)), FingerprintXor)
         IN IF expected = actual THEN Ok(FingerprintAttr) ELSE Err("BadFingerprint")

\* the type table of StunAttr::decode: the variant a known type selects
KindOfTyp(typ) ==
    CASE typ = 1 -> "Mapped"             [] typ = 6 -> "Username"
      [] typ = 8 -> "IntegrityCheck"     [] typ = 9 -> "Error"
      [] typ = 10 -> "UnknownAttributesParse"
      [] typ = 20 -> "Realm"             [] typ = 21 -> "Nonce"
      [] typ = 32 -> "XMapped"           [] typ = 32802 -> "Software"
      [] typ = 32803 -> "AlternateServer" [] typ = 32808 -> "Fingerprint"
      [] typ = 12 -> "Channel"           [] typ = 13 -> "Lifetime"
      [] typ = 18 -> "XPeer"             [] typ = 19 -> "Data"
      [] typ = 22 -> "XRelayed"          [] typ = 24 -> "EvenPort"
      [] typ = 25 -> "RequestedTransport" [] typ = 26 -> "DontFragment"
      [] typ = 34 -> "ReservationToken"  [] typ = 36 -> "Priority"
      [] typ = 37 -> "UseCandidate"      [] typ = 32809 -> "IceControlled"
      [] typ = 32810 -> "IceControlling" [] OTHER -> "Other"

\* StunAttr::decode
AttrDecode(typ, buff, ctx) ==
    LET kind == KindOfTyp(typ)
        c == Codec(kind)
    IN CASE kind = "Other" -> Ok(Other(typ, buff))
         [] c = "addr" -> AddrDecode(kind, buff, ctx)
         [] c = "zeroxor_addr" -> AddrDecode(kind, buff, ZeroXor(ctx))
         [] c = "str" -> IF FromUtf8Ok(buff) THEN Ok(Attr(kind, 0, buff, 0, NoCtx))
                         ELSE Err("BadUtf8")
         [] c = "integrity" -> IF Len(buff) = 20 THEN Ok(IntegrityCheck(buff, ctx))
                               ELSE Err("UnexpectedLength")
         [] c = "error" -> ErrorDecode(buff)
         [] c = "unknown" -> IF Len(buff) % 2 # 0 THEN Err("ValueUnexpectedLength")
                             ELSE Ok(Attr(kind, 0, buff, 0, NoCtx))
         [] c = "u32" -> IF Len(buff) = 4 THEN Ok(Attr(kind, 0, FromBE32(buff), 0, NoCtx))
                         ELSE Err("UnexpectedLength")
         [] c = "u64" -> IF Len(buff) = 8 THEN Ok(Attr(kind, 0, FromBE64(buff), 0, NoCtx))
                         ELSE Err("UnexpectedLength")
         [] c = "bytes" -> Ok(Attr(kind, 0, buff, 0, NoCtx))
         [] c = "evenport" -> IF Len(buff) # 1 THEN Err("ValueUnexpectedLength")
                              ELSE Ok(Attr(kind, 0, <<>>, IF buff[1] >= 128 THEN 1 ELSE 0, NoCtx))
         [] c = "reqtransport" -> IF Len(buff) # 4 THEN Err("ValueUnexpectedLength")
                                  ELSE Ok(Attr(kind, 0, <<>>, buff[1], NoCtx))
         [] c = "unit" -> IF Len(buff) = 0 THEN Ok(Attr(kind, 0, <<>>, 0, NoCtx))
                          ELSE Err("ValueUnexpectedLength")
         [] c = "fingerprint" -> FingerprintDecode(buff, ctx)

\* Integrity::verify
IntegrityVerify(a, key_data) ==
    IF a.kind = "IntegritySet" THEN key_data = a.s
    ELSE HmacSha1(key_data, reduce_over_prefix(a.ctx)) = a.s


(***************************************************************************)
(* StunAttrs: the attribute sequence, Parse { buff, header } or List(l).   *)
(***************************************************************************)
AttrsList(l) == [mode |-> "List", list |-> l, buff |-> <<>>, header |-> <<>>]
AttrsParse(buff, header) == [mode |-> "Parse", list |-> <<>>, buff |-> buff, header |-> header]

RECURSIVE SumLen(_)
SumLen(l) == IF l = <<>> THEN 0 ELSE (AttrLen(l[1]) + SumLen(Tail(l))) % 65536

\* StunAttrs::length
AttrsLength(attrs) ==
    IF attrs.mode = "Parse" THEN Len(attrs.buff) % 65536 ELSE SumLen(attrs.list)

Written(b) == [ok |-> TRUE, buff |-> b]
EncodePanic == [ok |-> FALSE, buff |-> <<>>]

\* the loop of StunAttrs::encode over List(l): attribute i is written at offset
\* length with the bytes before it as attrs_prefix
RECURSIVE ListEncode(_, _, _, _, _)
ListEncode(l, i, buff, length, header) ==
    IF i > Len(l) THEN Written(buff)
    ELSE LET attr == l[i]
             attr_len == AttrLen(attr)
             ctx == AttrContext(header, SubSeq(buff, 1, length), attr_len, FALSE)
         IN IF Len(buff) - length < attr_len THEN EncodePanic
            ELSE ListEncode(l, i + 1, Overwrite(buff, length, AttrEncode(attr, ctx)),
                            length + AttrLen(attr), header)

\* StunAttrs::encode into the window buff
AttrsEncode(attrs, buff, header) ==
    IF attrs.mode = "Parse"
    THEN IF Len(buff) = Len(attrs.buff) THEN Written(attrs.buff) ELSE EncodePanic
    ELSE ListEncode(attrs.list, 1, buff, 0, header)

\* impl IntoIterator for &StunAttrs
AttrsIntoIter(attrs) ==
    [mode |-> attrs.mode, list |-> attrs.list, idx |-> 1,
     buff |-> attrs.buff, header |-> attrs.header, length |-> 0]

NoIter == AttrsIntoIter(AttrsList(<<>>))

Stepped(kind, ret, ai) == [kind |-> kind, ret |-> ret, iter |-> ai]

\* the rounding loop of StunAttrsIter::next: padded_len += 1 until a multiple of 4
PaddedLen(attr_len) == ((attr_len + 3) \div 4) * 4

\* StunAttrsIter::next, Parse arm.  kind is "None", "Some" (ret is the item) or "Panic".
ParseNext(ai) ==
    LET buff == ai.buff
        length == ai.length
        unread == Tail0(buff, length)
        typ == FromBE16(Slice(unread, 0, 2))
        attr_length == FromBE16(Slice(unread, 2, 2))
        sum == 4 + attr_length
        attr_len == sum % 65536
        ctx == AttrContext(ai.header, SubSeq(buff, 1, length), attr_len, FALSE)
        data == Slice(buff, 4, attr_length)
        ret == IF Len(unread) < attr_len THEN Err("AttrLengthExceedsPacketLength")
               ELSE IF Len(buff) - 4 < attr_length THEN Panic
               ELSE AttrDecode(typ, data, ctx)
        padded == PaddedLen(attr_len)
    IN IF length > Len(buff) THEN Stepped("Panic", Panic, ai)
       ELSE IF Len(unread) < 4 THEN Stepped("None", Panic, ai)
       ELSE IF sum > 65535 /\ build = "checked" THEN Stepped("Panic", Panic, ai)
       ELSE IF ret.tag = "Panic" THEN Stepped("Panic", Panic, ai)
       ELSE IF padded > 65535 /\ build = "checked" THEN Stepped("Panic", Panic, ai)
       ELSE Stepped("Some", ret, [ai EXCEPT !.length = length + (padded % 65536)])

\* StunAttrsIter::next
AttrsNext(ai) ==
    IF ai.mode = "List"
    THEN IF ai.idx > Len(ai.list) THEN Stepped("None", Panic, ai)
         ELSE Stepped("Some", Ok(ai.list[ai.idx]), [ai EXCEPT !.idx = ai.idx + 1])
    ELSE ParseNext(ai)


(***************************************************************************)
(* Stun: the message envelope.                                             *)
(***************************************************************************)
Magic == U32(8466, 42050)

Stun(typ, txid, attrs) == [typ |-> typ, txid |-> txid, attrs |-> attrs]

NoStun == Stun(StunTyp("Req", 0), <<>>, AttrsList(<<>>))

\* Stun::len
StunLen(m) == 20 + AttrsLength(m.attrs)

\* Stun::res and Stun::err
StunRes(m, l) == Stun(StunTyp("Res", m.typ.method), m.txid, AttrsList(l))
StunErr(m, l) == Stun(StunTyp("Err", m.typ.method), m.txid, AttrsList(l))

\* Stun::encode into the caller's buffer buff
StunEncode(m, buff) ==
    IF Len(buff) < 20 THEN EncodePanic
    ELSE LET b1 == Overwrite(buff, 0, TypToBytes(m.typ))
             b2 == Overwrite(b1, 2, U16BE(AttrsLength(m.attrs)))
             b3 == Overwrite(b2, 4, U32BE(Magic))
             b4 == Overwrite(b3, 8, m.txid)
             header == SubSeq(b4, 1, 20)
             body == AttrsEncode(m.attrs, Tail0(b4, 20), header)
         IN IF body.ok THEN Written(header \o body.buff) ELSE EncodePanic

Decoded(m) == [tag |-> "Ok", err |-> "", aerr |-> "", stun |-> m]
DecodeErr(e) == [tag |-> "Err", err |-> e, aerr |-> "", stun |-> NoStun]
DecodeAttrErr(e) == [tag |-> "Err", err |-> "AttrErr", aerr |-> e, stun |-> NoStun]
DecodePanic == [tag |-> "Panic", err |-> "", aerr |-> "", stun |-> NoStun]
NoResult == [tag |-> "None", err |-> "", aerr |-> "", stun |-> NoStun]

\* the loop `for res in &attrs` of Stun::decode: "" when every item is Ok,
\* the first error otherwise, "Panic" when next() faults
RECURSIVE Walk(_)
Walk(ai) ==
    LET r == AttrsNext(ai)
    IN IF r.kind = "Panic" THEN "Panic"
       ELSE IF r.kind = "None" THEN ""
       ELSE IF r.ret.tag = "Err" THEN r.ret.err
       ELSE Walk(r.iter)

\* the length gate of Stun::decode: TRUE when decode returns PacketTooSmall
LengthGateFails(length, buflen) == (20 + length) < buflen

\* Stun::decode
StunDecode(buff) ==
    LET typ == TypTryFrom(Slice(buff, 0, 2))
        length == FromBE16(Slice(buff, 2, 2))
        magic == FromBE32(Slice(buff, 4, 4))
        txid == Slice(buff, 8, 12)
        attrs == AttrsParse(Slice(buff, 20, length), Slice(buff, 0, 20))
        walk == Walk(AttrsIntoIter(attrs))
    IN IF Len(buff) < 20 THEN DecodeErr("PacketTooSmall")
       ELSE IF typ = TypeOutOfRange THEN DecodeErr("TypeOutOfRange")
       ELSE IF length % 4 # 0 THEN DecodeErr("UnalignedLength")
       ELSE IF LengthGateFails(length, Len(buff)) THEN DecodeErr("PacketTooSmall")
       ELSE IF magic # Magic THEN DecodeErr("BadMagic")
       ELSE IF Len(buff) - 20 < length THEN DecodePanic
       ELSE IF walk = "Panic" THEN DecodePanic
       ELSE IF walk # "" THEN DecodeAttrErr(walk)
       ELSE Decoded(Stun(typ, txid, attrs))

(***************************************************************************)
(* StunIter: the message-level iterator.                                   *)
(***************************************************************************)
\* impl IntoIterator for &Stun
StunIntoIter(m) ==
    [integrity |-> FALSE, fingerprint |-> FALSE, attrs |-> AttrsIntoIter(m.attrs)]

NoStunIter == [integrity |-> FALSE, fingerprint |-> FALSE, attrs |-> NoIter]

\* StunIter::next's match without `self.fingerprint = true`
IterMatchNoFingerprintFlag(attr, integrity, fingerprint) ==
    IF fingerprint THEN [item |-> NullAttr, integrity |-> integrity, fingerprint |-> fingerprint]
    ELSE IF attr.kind = "Fingerprint"
         THEN [item |-> attr, integrity |-> integrity, fingerprint |-> fingerprint]
    ELSE IF integrity THEN [item |-> NullAttr, integrity |-> integrity, fingerprint |-> fingerprint]
    ELSE IF IsIntegrity(attr)
         THEN [item |-> attr, integrity |-> TRUE, fingerprint |-> fingerprint]
    ELSE [item |-> attr, integrity |-> integrity, fingerprint |-> fingerprint]

\* the match of StunIter::next on the attribute just read: the item returned
\* ("None" or the attribute) and the flags afterwards
IterMatch(attr, integrity, fingerprint) ==
    IF fingerprint THEN [item |-> NullAttr, integrity |-> integrity, fingerprint |-> fingerprint]
    ELSE IF attr.kind = "Fingerprint"
         THEN [item |-> attr, integrity |-> integrity, fingerprint |-> TRUE]
    ELSE IF integrity THEN [item |-> NullAttr, integrity |-> integrity, fingerprint |-> fingerprint]
    ELSE IF IsIntegrity(attr)
         THEN [item |-> attr, integrity |-> TRUE, fingerprint |-> fingerprint]
    ELSE [item |-> attr, integrity |-> integrity, fingerprint |-> fingerprint]

\* StunIter::next.  item is NullAttr for None; panic is the unwrap of an Err
\* item or a fault inside the attribute iterator
StunIterNext(si) ==
    LET r == AttrsNext(si.attrs)
        m == IterMatch(r.ret.attr, si.integrity, si.fingerprint)
    IN IF r.kind = "Panic" THEN [panic |-> TRUE, item |-> NullAttr, iter |-> si]
       ELSE IF r.kind = "None" THEN [panic |-> FALSE, item |-> NullAttr, iter |-> si]
       ELSE IF r.ret.tag # "Ok"
            THEN [panic |-> TRUE, item |-> NullAttr, iter |-> [si EXCEPT !.attrs = r.iter]]
       ELSE [panic |-> FALSE, item |-> m.item,
             iter |-> [integrity |-> m.integrity, fingerprint |-> m.fingerprint,
                       attrs |-> r.iter]]


(***************************************************************************)
(* The inputs the callers supply.                                          *)
(***************************************************************************)
Builds == {"checked", "wrapping"}

TxA == <<1, 2, 3, 4, 5, 6, 7, 8, 9, 10, 11, 12>>

Key1 == <<107, 49>>
Key2 == <<107, 50>>
Keys == {Key1, Key2}

\* the message types of the codec runs, and of the packing runs
Types == {StunTyp("Req", 1), StunTyp("Res", 1)}
AllTypes == {StunTyp(c, m) : c \in Classes, m \in 0..4095}

\* the attributes an application pushes: Software("x"), Software("abcd"),
\* Integrity::Set { key_data }, Fingerprint, UseCandidate
AttrPool ==
    {Software(<<120>>), Software(<<97, 98, 99, 100>>), IntegritySet(Key1),
     FingerprintAttr, UseCandidate}

Header(typfield, length, cookie, txid) == typfield \o U16BE(length) \o cookie \o txid

\* attribute regions of received datagrams: no attribute, UseCandidate,
\* Software("x") with padding, a Software TLV declaring 8 / 65529 / 65532 /
\* 65535 value bytes that are not there, alone or after UseCandidate
Regions ==
    {<<>>,
     <<0, 37, 0, 0>>,
     <<128, 34, 0, 1, 120, 0, 0, 0>>,
     <<128, 34, 0, 8>>,
     <<128, 34, 255, 249>>,
     <<128, 34, 255, 252>>,
     <<128, 34, 255, 255>>,
     <<0, 37, 0, 0, 128, 34, 0, 8>>,
     <<0, 37, 0, 0, 128, 34, 255, 255>>}

TypFields == {<<0, 1>>, <<64, 0>>}
DeclaredLengths == {0, 3, 4, 8}
Cookies == {U32BE(Magic), <<33, 18, 164, 67>>}

\* received datagrams: a header followed by a region that may be shorter or
\* longer than the declared length, and two datagrams shorter than a header
Datagrams ==
    {Header(t, l, c, TxA) \o r : t \in TypFields, l \in DeclaredLengths, c \in Cookies,
                                  r \in Regions}
    \cup {<<>>, SubSeq(Header(<<64, 0>>, 3, <<33, 18, 164, 67>>, TxA), 1, 19)}

NoOut == [by |-> "none", ok |-> FALSE, buff |-> <<>>, len |-> 0, cap |-> 0]

\* the caller's output buffer of n bytes before encode: every byte 0xAA
Buffer(n) == [i \in 1..n |-> 170]

(***************************************************************************)
(* The state machine: an application builds a List-mode message, encodes   *)
(* it, sends the first len() bytes; a receiver decodes a datagram (the one *)
(* sent, or one crafted by a peer), re-encodes the decoded message, or     *)
(* iterates a message's attributes.                                        *)
(***************************************************************************)
\* the variables of the attribute-walk runs and of the value-codec runs, and
\* their values in the runs that do not use them
walkvars == <<aiter, rets>>
valvars == <<aval, actx, aenc, adec>>
WalkIdle == aiter = NoIter /\ rets = <<>>
ValIdle == aval = NullAttr /\ actx = NoCtx /\ aenc = <<>> /\ adec = Panic

Init ==
    /\ build \in Builds
    /\ pc = "build"
    /\ msg \in {Stun(t, TxA, AttrsList(<<>>)) : t \in Types}
    /\ out = NoOut
    /\ wire = <<>>
    /\ res = NoResult
    /\ it = NoStunIter
    /\ yielded = <<>>
    /\ tfield = <<>>
    /\ tback = TypeOutOfRange
    /\ WalkIdle
    /\ ValIdle

\* the application appends an attribute to the list it will send
Push(a) ==
    /\ pc = "build"
    /\ Len(msg.attrs.list) < MaxAttrs
    /\ msg' = [msg EXCEPT !.attrs = AttrsList(Append(msg.attrs.list, a))]
    /\ UNCHANGED <<build, pc, out, wire, res, it, yielded, tfield, tback, walkvars, valvars>>

\* r.encode(&mut write_buff) into a buffer of len() + extra bytes, then
\* send_to(&write_buff[..r.len()])
EncodeOf(by, m, extra) ==
    LET cap == StunLen(m) + extra
        w == StunEncode(m, Buffer(cap))
    IN [by |-> by, ok |-> w.ok, buff |-> w.buff, len |-> StunLen(m), cap |-> cap]

Encode(extra) ==
    /\ pc = "build"
    /\ out' = EncodeOf("msg", msg, extra)
    /\ pc' = IF out'.ok THEN "encoded" ELSE "fault"
    /\ wire' = IF out'.ok THEN SubSeq(out'.buff, 1, StunLen(msg)) ELSE <<>>
    /\ UNCHANGED <<build, msg, res, it, yielded, tfield, tback, walkvars, valvars>>

\* a datagram arrives from a peer
Recv(d) ==
    /\ pc = "build"
    /\ msg.attrs.list = <<>>
    /\ wire' = d
    /\ pc' = "received"
    /\ UNCHANGED <<build, msg, out, res, it, yielded, tfield, tback, walkvars, valvars>>

\* Stun::decode(&read_buff[..len])
Decode ==
    /\ pc \in {"encoded", "received"}
    /\ res' = StunDecode(wire)
    /\ pc' = "decoded"
    /\ UNCHANGED <<build, msg, out, wire, it, yielded, tfield, tback, walkvars, valvars>>

\* the decoded (Parse-mode) message is encoded again
EncodeParsed(extra) ==
    /\ pc = "decoded"
    /\ res.tag = "Ok"
    /\ out' = EncodeOf("parsed", res.stun, extra)
    /\ pc' = IF out'.ok THEN "reencoded" ELSE "fault"
    /\ UNCHANGED <<build, msg, wire, res, it, yielded, tfield, tback, walkvars, valvars>>

\* for a in &m, on the built message or on the decoded one
IterStart ==
    /\ \/ pc = "build" /\ it' = StunIntoIter(msg)
       \/ pc = "decoded" /\ res.tag = "Ok" /\ it' = StunIntoIter(res.stun)
    /\ pc' = "iter"
    /\ yielded' = <<>>
    /\ UNCHANGED <<build, msg, out, wire, res, tfield, tback, walkvars, valvars>>

PanicItem == Attr("Panic", 0, <<>>, 0, NoCtx)

\* one call of StunIter::next; yielded records what each call returned
IterNext ==
    /\ pc = "iter"
    /\ Len(yielded) < MaxNext
    /\ LET r == StunIterNext(it)
       IN /\ it' = r.iter
          /\ yielded' = Append(yielded, IF r.panic THEN PanicItem ELSE r.item)
          /\ pc' = IF r.panic THEN "fault" ELSE "iter"
    /\ UNCHANGED <<build, msg, out, wire, res, tfield, tback, walkvars, valvars>>

Next ==
    \/ \E a \in AttrPool : Push(a)
    \/ \E extra \in 0..MaxExtra : Encode(extra)
    \/ \E d \in Datagrams : Recv(d)
    \/ Decode
    \/ \E extra \in 0..MaxExtra : EncodeParsed(extra)
    \/ IterStart
    \/ IterNext

Spec == Init /\ [][Next]_vars

(***************************************************************************)
(* Type packing on its own: every class and every 12-bit method is packed  *)
(* into the wire field and unpacked again.                                 *)
(***************************************************************************)
InitTyp ==
    /\ build \in Builds
    /\ pc = "typ"
    /\ msg \in {Stun(t, TxA, AttrsList(<<>>)) : t \in AllTypes}
    /\ out = NoOut
    /\ wire = <<>>
    /\ res = NoResult
    /\ it = NoStunIter
    /\ yielded = <<>>
    /\ tfield = <<>>
    /\ tback = TypeOutOfRange
    /\ WalkIdle
    /\ ValIdle

Pack ==
    /\ pc = "typ"
    /\ tfield' = TypToBytes(msg.typ)
    /\ pc' = "packed"
    /\ UNCHANGED <<build, msg, out, wire, res, it, yielded, tback, walkvars, valvars>>

Unpack ==
    /\ pc = "packed"
    /\ tback' = TypTryFrom(tfield)
    /\ pc' = "unpacked"
    /\ UNCHANGED <<build, msg, out, wire, res, it, yielded, tfield, walkvars, valvars>>

NextTyp == Pack \/ Unpack

SpecTyp == InitTyp /\ [][NextTyp]_vars


(***************************************************************************)
(* Properties.                                                             *)
(***************************************************************************)
\* the attributes a Parse-mode sequence yields, in order
RECURSIVE Items(_)
Items(ai) ==
    LET r == AttrsNext(ai)
    IN IF r.kind # "Some" \/ r.ret.tag # "Ok" THEN <<>>
       ELSE <<r.ret.attr>> \o Items(r.iter)

\* a decoded attribute carries the value of the attribute that was encoded;
\* Integrity::Set { key } is decoded as a Check that verifies under key
SameValue(sent, got) ==
    IF sent.kind = "IntegritySet"
    THEN got.kind = "IntegrityCheck" /\ IntegrityVerify(got, sent.s)
    ELSE got = sent

\* the state after decoding the datagram the application encoded and sent
SentAndDecoded == pc = "decoded" /\ out.by = "msg"

\* C1: decoding the bytes encode wrote for a List-mode message succeeds and
\* yields the same type, the same transaction id and the same attribute
\* values in the same order.
C1_RoundTrip ==
    SentAndDecoded =>
        /\ res.tag = "Ok"
        /\ res.stun.typ = msg.typ
        /\ res.stun.txid = msg.txid
        /\ LET l == msg.attrs.list
               d == Items(AttrsIntoIter(res.stun.attrs))
           IN /\ Len(d) = Len(l)
              /\ \A i \in 1..Len(l) : SameValue(l[i], d[i])

\* C2: packing StunTyp::X(m) into the wire field and unpacking it returns the
\* same class and the same method, and the wire field is below 0x4000.
C2_TypeRoundTrip ==
    pc = "unpacked" => (tback = msg.typ /\ FromBE16(tfield) < 16384)

\* C3: a List-mode message whose last attribute is Fingerprint, after zero or
\* more other attributes, decodes successfully (never BadFingerprint) and
\* yields the Fingerprint attribute.
C3_FingerprintVerifies ==
    LET l == msg.attrs.list
    IN (/\ SentAndDecoded
        /\ l # <<>>
        /\ l[Len(l)] = FingerprintAttr
        /\ \A i \in 1..(Len(l) - 1) : l[i] # FingerprintAttr)
       => /\ res.tag = "Ok"
          /\ LET d == Items(AttrsIntoIter(res.stun.attrs))
             IN Len(d) = Len(l) /\ d[Len(d)] = FingerprintAttr

\* C4: for a List-mode message containing Integrity::Set { key } at any
\* position, the Integrity::Check decoded at that position verifies under key
\* and under no other key.
C4_IntegrityVerifies ==
    LET l == msg.attrs.list
    IN SentAndDecoded =>
        \A i \in 1..Len(l) :
            l[i].kind = "IntegritySet" =>
                /\ res.tag = "Ok"
                /\ LET d == Items(AttrsIntoIter(res.stun.attrs))
                   IN /\ Len(d) >= i
                      /\ d[i].kind = "IntegrityCheck"
                      /\ IntegrityVerify(d[i], l[i].s)
                      /\ \A k \in Keys \ {l[i].s} : ~IntegrityVerify(d[i], k)

WireTyp == FromBE16(Slice(wire, 0, 2))
WireLength == FromBE16(Slice(wire, 2, 2))
WireMagic == FromBE32(Slice(wire, 4, 4))

\* C5: for a buffer of at least 20 bytes with a type field below 0x4000 and a
\* declared length L that is a multiple of 4, decode returns PacketTooSmall
\* exactly when 20 + L exceeds the buffer length, never faults, and bytes
\* beyond offset 20 + L do not change the result.
C5_LengthGate ==
    (pc = "decoded" /\ Len(wire) >= 20 /\ WireTyp < 16384 /\ WireLength % 4 = 0)
    => /\ res.tag # "Panic"
       /\ (res.tag = "Err" /\ res.err = "PacketTooSmall") <=> (20 + WireLength > Len(wire))
       /\ Len(wire) >= 20 + WireLength => res = StunDecode(SubSeq(wire, 1, 20 + WireLength))

\* the length of the attributes with each padded to a 4-byte boundary
RECURSIVE PaddedTotal(_)
PaddedTotal(l) ==
    IF l = <<>> THEN 0
    ELSE ((4 + AttrLength(l[1]) + 3) \div 4) * 4 + PaddedTotal(Tail(l))

\* C6: for a List-mode message, len() is the number of bytes of the encoded
\* message with every attribute padded to a 4-byte boundary, is a multiple of
\* 4, and the length field encode writes is that padded attribute total.
C6_EncodedLength ==
    (pc = "encoded" /\ out.by = "msg")
    => /\ StunLen(msg) = 20 + PaddedTotal(msg.attrs.list)
       /\ StunLen(msg) % 4 = 0
       /\ Len(wire) = StunLen(msg)
       /\ WireLength = PaddedTotal(msg.attrs.list)


\* the attribute region of a received datagram that passes the header gates
WireRegion == Tail0(wire, 20)

HeaderGatesPass ==
    /\ Len(wire) >= 20
    /\ WireTyp < 16384
    /\ WireLength % 4 = 0
    /\ Len(wire) = 20 + WireLength
    /\ WireMagic = Magic

\* a TLV header starts at cursor c and its declared length overruns the region
Overruns(region, c) ==
    /\ c + 4 <= Len(region)
    /\ 4 + FromBE16(Slice(region, c + 2, 2)) > Len(region) - c

\* the TLV at cursor c is a well-formed UseCandidate
UseCandidateAt(region, c) == c + 4 <= Len(region) /\ Slice(region, c, 4) = <<0, 37, 0, 0>>

\* C7: a TLV whose declared length L (0..65535) makes 4 + L exceed the bytes
\* remaining from the cursor makes the attribute iterator yield
\* Err(AttrLengthExceedsPacketLength) and Stun::decode return
\* AttrErr(AttrLengthExceedsPacketLength), never a fault.
C7_OverrunIsAnError ==
    (pc = "decoded" /\ HeaderGatesPass)
    => /\ \A c \in {0, 4} :
            Overruns(WireRegion, c) =>
                LET r == ParseNext([AttrsIntoIter(AttrsParse(WireRegion, SubSeq(wire, 1, 20)))
                                        EXCEPT !.length = c])
                IN r.kind = "Some" /\ r.ret = Err("AttrLengthExceedsPacketLength")
       /\ (\/ Overruns(WireRegion, 0)
           \/ UseCandidateAt(WireRegion, 0) /\ Overruns(WireRegion, 4))
          => res = DecodeAttrErr("AttrLengthExceedsPacketLength")

IsYield(x) == x.kind \notin {"None", "Panic"}

\* C8: over any sequence of next() calls on a message's iterator, nothing is
\* yielded after a Fingerprint has been yielded, and after an Integrity has
\* been yielded only a Fingerprint can still be yielded.
C8_NothingAfterAuth ==
    \A i, j \in 1..Len(yielded) :
        i < j =>
            /\ yielded[i].kind = "Fingerprint" => ~IsYield(yielded[j])
            /\ IsIntegrity(yielded[i]) => (~IsYield(yielded[j]) \/ yielded[j].kind = "Fingerprint")

\* C8 witness: Integrity then Fingerprint were yielded and the attribute read
\* after them was suppressed.
C8_Witness ==
    /\ pc = "iter"
    /\ Len(yielded) >= 3
    /\ IsIntegrity(yielded[1])
    /\ yielded[2].kind = "Fingerprint"
    /\ yielded[3].kind = "None"
    /\ it.attrs.mode = "List" /\ it.attrs.idx = 4 /\ Len(it.attrs.list) = 3

\* C9: the decode gates apply in a fixed order and the first failing one gives
\* the result: PacketTooSmall under 20 bytes, then TypeOutOfRange, then
\* UnalignedLength, then PacketTooSmall when the declared length exceeds the
\* buffer, then BadMagic; AttrErr or success only when all header gates passed.
C9_GateOrder ==
    pc = "decoded" =>
        IF Len(wire) < 20 THEN res = DecodeErr("PacketTooSmall")
        ELSE IF WireTyp >= 16384 THEN res = DecodeErr("TypeOutOfRange")
        ELSE IF WireLength % 4 # 0 THEN res = DecodeErr("UnalignedLength")
        ELSE IF 20 + WireLength > Len(wire) THEN res = DecodeErr("PacketTooSmall")
        ELSE IF WireMagic # Magic THEN res = DecodeErr("BadMagic")
        ELSE res.tag = "Ok" \/ (res.tag = "Err" /\ res.err = "AttrErr")

\* C10: for a List-mode or a Parse-mode message, encode into a buffer of at
\* least len() bytes completes, writes the message into the first len() bytes
\* and leaves every byte from index len() on unchanged.
C10_EncodeAnyBuffer ==
    (out.by # "none" /\ out.cap >= out.len)
    => /\ out.ok
       /\ Len(out.buff) = out.cap
       /\ \A i \in (out.len + 1)..out.cap : out.buff[i] = Buffer(out.cap)[i]
       /\ LET m == IF out.by = "msg" THEN msg ELSE res.stun
          IN SubSeq(out.buff, 1, out.len) = StunEncode(m, Buffer(out.len)).buff


(***************************************************************************)
(* The attribute walk on its own: a Parse-mode StunAttrs over an arbitrary *)
(* region (StunAttrs::Parse has public fields) is iterated call by call.   *)
(***************************************************************************)
\* TLVs a region is made of: UseCandidate, Other(0xFFFF, "abcd"),
\* Other(0xFFFF, "wxyz"), Other(0xFFFF, "x") with padding and without,
\* Integrity with 20 value bytes, and headers declaring 8, 65529, 65532 and
\* 65535 value bytes
WalkTlvs ==
    {<<0, 37, 0, 0>>,
     <<255, 255, 0, 4, 97, 98, 99, 100>>,
     <<255, 255, 0, 4, 119, 120, 121, 122>>,
     <<255, 255, 0, 1, 120, 0, 0, 0>>,
     <<255, 255, 0, 1, 120>>,
     <<0, 8, 0, 20, 1, 2, 3, 4, 5, 6, 7, 8, 9, 10, 11, 12, 13, 14, 15, 16, 17, 18, 19, 20>>,
     <<128, 34, 0, 8>>,
     <<128, 34, 255, 249>>,
     <<128, 34, 255, 252>>,
     <<255, 255, 255, 255>>}

RECURSIVE RegionsOf(_)
RegionsOf(n) ==
    IF n = 0 THEN {<<>>}
    ELSE RegionsOf(n - 1) \cup {r \o t : r \in RegionsOf(n - 1), t \in WalkTlvs}

WalkRegions == RegionsOf(MaxTlvs)

InitWalk ==
    /\ build \in Builds
    /\ pc = "walk"
    /\ msg = Stun(StunTyp("Req", 1), TxA, AttrsList(<<>>))
    /\ out = NoOut
    /\ wire = <<>>
    /\ res = NoResult
    /\ it = NoStunIter
    /\ yielded = <<>>
    /\ tfield = <<>>
    /\ tback = TypeOutOfRange
    /\ \E r \in WalkRegions :
          aiter = AttrsIntoIter(AttrsParse(r, Header(<<0, 1>>, Len(r) % 65536, U32BE(Magic), TxA)))
    /\ rets = <<>>
    /\ ValIdle

\* one call of StunAttrsIter::next; rets records what each call returned and
\* the cursor before and after it
WalkNext ==
    /\ pc = "walk"
    /\ Len(rets) < MaxWalk
    /\ LET r == AttrsNext(aiter)
       IN /\ aiter' = r.iter
          /\ rets' = Append(rets, [kind |-> r.kind, ret |-> r.ret,
                                   from |-> aiter.length, to |-> r.iter.length])
          /\ pc' = IF r.kind = "Panic" THEN "fault" ELSE "walk"
    /\ UNCHANGED <<build, msg, out, wire, res, it, yielded, tfield, tback, valvars>>

NextWalk == WalkNext

SpecWalk == InitWalk /\ [][NextWalk]_vars

\* C11: every call of next() on a Parse-mode attribute iterator that returns
\* Some advances the cursor by a multiple of 4 that is at least 4, whatever the
\* declared 16-bit length; hence the walk does not fault and within
\* Len(region) / 4 + 1 calls next() has returned None.
C11_WalkTerminates ==
    /\ \A i \in 1..Len(rets) :
          /\ rets[i].kind # "Panic"
          /\ rets[i].kind = "Some" =>
                /\ rets[i].to - rets[i].from >= 4
                /\ (rets[i].to - rets[i].from) % 4 = 0
    /\ Len(rets) > (Len(aiter.buff) \div 4) + 1 => \E i \in 1..Len(rets) : rets[i].kind = "None"


(***************************************************************************)
(* One attribute value on its own: StunAttr::encode writes the value of an *)
(* attribute, the bytes (whole, or cut short as a peer may send them) are  *)
(* handed to StunAttr::decode under the attribute's type.                  *)
(***************************************************************************)
\* 192.0.2.1, 0.0.0.0, 255.255.255.255
V4Addrs == {<<192, 0, 2, 1>>, <<0, 0, 0, 0>>, <<255, 255, 255, 255>>}

\* 2001:db8::1, ::1, ::, ::ffff:192.0.2.1, ::ffff:0.0.0.0, ::fffe:192.0.2.1
V6Addrs ==
    {<<32, 1, 13, 184, 0, 0, 0, 0, 0, 0, 0, 0, 0, 0, 0, 1>>,
     <<0, 0, 0, 0, 0, 0, 0, 0, 0, 0, 0, 0, 0, 0, 0, 1>>,
     <<0, 0, 0, 0, 0, 0, 0, 0, 0, 0, 0, 0, 0, 0, 0, 0>>,
     <<0, 0, 0, 0, 0, 0, 0, 0, 0, 0, 255, 255, 192, 0, 2, 1>>,
     <<0, 0, 0, 0, 0, 0, 0, 0, 0, 0, 255, 255, 0, 0, 0, 0>>,
     <<0, 0, 0, 0, 0, 0, 0, 0, 0, 0, 255, 254, 192, 0, 2, 1>>}

Ports == {0, 3478, 65535}

SocketAddrs == {XMapped(ip, port) : ip \in V4Addrs \cup V6Addrs, port \in Ports}
                  \cup {Mapped(ip, port) : ip \in V4Addrs \cup V6Addrs, port \in Ports}

\* every code with class 0..7 and number 0..99, with an empty and a one-byte reason
Codes == 0..799

Errors == {ErrorAttr(code, message) : code \in Codes, message \in {<<>>, <<120>>}}

\* headers whose bytes 4..20 are the XOR key
ValHeaders ==
    {Header(<<0, 1>>, 0, U32BE(Magic), TxA),
     Header(<<0, 1>>, 0, <<0, 0, 0, 0>>, <<0, 0, 0, 0, 0, 0, 0, 0, 0, 0, 0, 0>>),
     Header(<<1, 1>>, 0, <<255, 255, 255, 255>>,
            <<255, 254, 253, 252, 251, 250, 249, 248, 247, 246, 245, 244>>)}

InitVal ==
    /\ build \in Builds
    /\ pc = "val"
    /\ msg = Stun(StunTyp("Req", 1), TxA, AttrsList(<<>>))
    /\ out = NoOut
    /\ wire = <<>>
    /\ res = NoResult
    /\ it = NoStunIter
    /\ yielded = <<>>
    /\ tfield = <<>>
    /\ tback = TypeOutOfRange
    /\ WalkIdle
    /\ aval \in SocketAddrs \cup Errors
    /\ \E h \in ValHeaders : actx = AttrContext(h, <<>>, (4 + ValLength(aval)) % 65536, FALSE)
    /\ aenc = <<>>
    /\ adec = Panic

\* StunAttrValue::encode into a buffer of length() bytes
ValEnc ==
    /\ pc = "val"
    /\ aenc' = ValEncode(aval, actx)
    /\ pc' = "venc"
    /\ UNCHANGED <<build, msg, out, wire, res, it, yielded, tfield, tback, walkvars,
                   aval, actx, adec>>

\* the value arrives k bytes long, shorter than it was written
ValCut(k) ==
    /\ pc = "venc"
    /\ k < Len(aenc)
    /\ aenc' = SubSeq(aenc, 1, k)
    /\ pc' = "vcut"
    /\ UNCHANGED <<build, msg, out, wire, res, it, yielded, tfield, tback, walkvars,
                   aval, actx, adec>>

\* StunAttr::decode of the value bytes under the attribute's type
ValDec ==
    /\ pc \in {"venc", "vcut"}
    /\ adec' = AttrDecode(AttrTyp(aval), aenc, actx)
    /\ pc' = IF pc = "venc" THEN "vdec" ELSE "vcutdec"
    /\ UNCHANGED <<build, msg, out, wire, res, it, yielded, tfield, tback, walkvars,
                   aval, actx, aenc>>

NextVal ==
    \/ ValEnc
    \/ \E k \in 0..19 : ValCut(k)
    \/ ValDec

SpecVal == InitVal /\ [][NextVal]_vars

IsAddr(a) == a.kind \in {"XMapped", "Mapped"}

\* ::ffff:a.b.c.d
V4Mapped(ip) ==
    Len(ip) = 16 /\ (\A i \in 1..10 : ip[i] = 0) /\ ip[11] = 255 /\ ip[12] = 255

\* C12 as stated: decoding the encoding of a SocketAddr a under the same key
\* yields a itself (same port, same address), IPv4-mapped IPv6 included, and
\* the wire value has 8 bytes for IPv4 and IPv4-mapped inputs and 20 bytes for
\* other IPv6 inputs.
C12_XorAddrOriginal ==
    (pc = "vdec" /\ IsAddr(aval)) =>
        /\ adec.tag = "Ok"
        /\ adec.attr.kind = aval.kind
        /\ adec.attr.n = aval.n
        /\ adec.attr.s = aval.s
        /\ Len(aenc) = (IF Len(aval.s) = 4 \/ V4Mapped(aval.s) THEN 8 ELSE 20)

\* C12: decoding the encoding of a SocketAddr a under the same key yields the
\* port of a and the canonical form of its address: the address itself for
\* IPv4 and for IPv6 that is not IPv4-mapped, the embedded IPv4 address for
\* ::ffff:a.b.c.d; the wire value has 8 bytes for IPv4 and IPv4-mapped inputs
\* and 20 bytes for other IPv6 inputs.
C12_XorAddrCanonical ==
    (pc = "vdec" /\ IsAddr(aval)) =>
        /\ adec.tag = "Ok"
        /\ adec.attr.kind = aval.kind
        /\ adec.attr.n = aval.n
        /\ adec.attr.s = (IF V4Mapped(aval.s) THEN SubSeq(aval.s, 13, 16) ELSE aval.s)
        /\ Len(aenc) = (IF Len(aval.s) = 4 \/ V4Mapped(aval.s) THEN 8 ELSE 20)

\* an IPv4-mapped address with a nonzero port went through the XOR codec
\* under the magic-cookie key and came back as IPv4
C12_Witness ==
    /\ pc = "vdec"
    /\ aval.kind = "XMapped"
    /\ V4Mapped(aval.s)
    /\ aval.n = 3478
    /\ Slice(actx.header, 4, 4) = U32BE(Magic)
    /\ adec.tag = "Ok"
    /\ adec.attr.s = <<192, 0, 2, 1>>
    /\ adec.attr.n = 3478

\* C14: decoding an ERROR-CODE value of at least 4 bytes whose third byte is a
\* class c in 0..7 and whose fourth byte is a number n in 0..99 yields the code
\* c*100 + n without fault, so decoding the encoding of Error{code, message}
\* returns the same code for every code in 0..799; a value shorter than 4
\* bytes yields ValueUnexpectedLength.
C14_ErrorCodeExact ==
    (pc \in {"vdec", "vcutdec"} /\ aval.kind = "Error") =>
        /\ (Len(aenc) >= 4 /\ aenc[3] \in 0..7 /\ aenc[4] \in 0..99) =>
              /\ adec.tag = "Ok"
              /\ adec.attr.n = aenc[3] * 100 + aenc[4]
        /\ (pc = "vdec" /\ aval.n \in 0..799) =>
              /\ adec.tag = "Ok"
              /\ adec.attr.n = aval.n
        /\ Len(aenc) < 4 => adec = Err("ValueUnexpectedLength")

\* C13: in Parse-mode iteration the attribute whose TLV header starts at cursor
\* c of the region with declared length L (and lies within the region) is
\* decoded from the value bytes region[c+4 .. c+4+L] under a context with
\* attrs_prefix = region[0 .. c] and attr_len = 4 + L, and the cursor moves to
\* c + 4 + L rounded up to a multiple of 4, for the first attribute and for
\* every later one.
C13_OwnBytes ==
    pc \in {"walk", "fault"} =>
        \A i \in 1..Len(rets) :
            LET region == aiter.buff
                c == rets[i].from
                typ == FromBE16(Slice(region, c, 2))
                L == FromBE16(Slice(region, c + 2, 2))
                ctx == AttrContext(aiter.header, Slice(region, 0, c), 4 + L, FALSE)
            IN (c + 4 <= Len(region) /\ c + 4 + L <= Len(region)) =>
                  /\ rets[i].kind = "Some"
                  /\ rets[i].ret = AttrDecode(typ, Slice(region, c + 4, L), ctx)
                  /\ rets[i].to = c + ((4 + L + 3) \div 4) * 4

\* C15: the message-level iterator is fused: once a call of next() on a
\* message's iterator has returned None, every later call on the same iterator
\* returns None as well.
C15_Fused ==
    \A i, j \in 1..Len(yielded) :
        (i < j /\ yielded[i].kind = "None") => yielded[j].kind = "None"

=============================================================================
